---- MODULE Spec2Model ----
(***************************************************************************)
(* Model of flightlog_submit.py: the duplicate remover                     *)
(* (remove_duplicate_files), the IGC decoders (datetime_from_igc,          *)
(* parse_b_record, parse_tracklog_line, parse_tracklog_header) and the     *)
(* polling loop of main.                                                   *)
(*                                                                         *)
(* Text is modelled as a sequence of one-character strings, so Python's    *)
(* slicing, indexing, strip, split and int() are computed, not assumed.    *)
(* A Python exception is modelled by its class name.                       *)
(***************************************************************************)
EXTENDS Integers, Sequences, FiniteSets, TLC

VARIABLES
    \* ---- remove_duplicate_files
    files,        \* the sequence path.rglob('*.*') yields (scan order)
    content,      \* bytes of every scanned file: path -> content
    undeletable,  \* files whose unlink() the file system refuses
    disk,         \* the paths that exist on disk
    hashes,       \* dict checksum -> Path
    removed,      \* list of Paths
    pos,          \* index in files of the next file of the for loop
    rdf,          \* "scanning", "returned" or "raised"
    rdfExc,       \* the exception that ended the call, or "none"
    \* ---- main
    dir,          \* names of the files in the watched directory
    skip,         \* the skip list
    pc,           \* position of main: "glob", "session", "for", "sleep", "crashed", "idle"
    tracklogs,    \* the sorted Tracklog list of the current cycle
    flights,      \* what flightlog.flights() returned for the current cycle
    i,            \* index in tracklogs of the next tracklog of the for loop
    posted,       \* every new_flight call made so far: [cycle, name, outcome]
    cycle,        \* number of the current iteration of while True
    exc,          \* the exception that ended main, or "none"
    listing,      \* the order in which path.glob listed the current cycle's files
    skipAtGlob,   \* value of skip when the current cycle listed the directory
    dirAtGlob,    \* value of dir when the current cycle listed the directory
    dirAtPrevGlob,\* value of dir when the previous cycle listed the directory
    \* ---- decoders applied to one input
    input,        \* [kind |-> "file", lines |-> ...] or [kind |-> "line", line |-> ...]
    output        \* [done |-> FALSE], or the results of the decoders applied to input

dedupVars == <<files, content, undeletable, disk, hashes, removed, pos, rdf, rdfExc>>
mainVars == <<dir, skip, pc, tracklogs, flights, i, posted, cycle, exc, listing,
              skipAtGlob, dirAtGlob, dirAtPrevGlob>>
parseVars == <<input, output>>
vars == <<dedupVars, mainVars, parseVars>>

(***************************************************************************)
(* Python text primitives                                                  *)
(***************************************************************************)
Min2(a, b) == IF a < b THEN a ELSE b

\* s[a:b] for 0 <= a, b: never raises, clips to the length of s
Slice(s, a, b) ==
    LET lo == Min2(a, Len(s))
        hi == Min2(b, Len(s))
    IN  IF hi <= lo THEN <<>> ELSE SubSeq(s, lo + 1, hi)

\* s[a:]
SliceFrom(s, a) == Slice(s, a, Len(s))

\* s[k] for 0 <= k raises IndexError when k >= len(s)
HasIndex(s, k) == k < Len(s)

\* s.startswith(p)
StartsWith(s, p) == Len(s) >= Len(p) /\ SubSeq(s, 1, Len(p)) = p

\* s.endswith(p)
EndsWith(s, p) == Len(s) >= Len(p) /\ SubSeq(s, Len(s) - Len(p) + 1, Len(s)) = p

Whitespace == {" ", "\t", "\r", "\n"}

RECURSIVE LStrip(_)
LStrip(s) == IF s # <<>> /\ Head(s) \in Whitespace THEN LStrip(Tail(s)) ELSE s

RECURSIVE RStrip(_)
RStrip(s) ==
    IF s # <<>> /\ s[Len(s)] \in Whitespace THEN RStrip(SubSeq(s, 1, Len(s) - 1)) ELSE s

\* s.strip()
Strip(s) == RStrip(LStrip(s))

DigitChars == <<"0", "1", "2", "3", "4", "5", "6", "7", "8", "9">>
IsDigit(c) == \E d \in 1..10 : DigitChars[d] = c
DigitValue(c) == (CHOOSE d \in 1..10 : DigitChars[d] = c) - 1

RECURSIVE DigitsValue(_)
DigitsValue(s) ==
    IF s = <<>> THEN 0
    ELSE DigitsValue(SubSeq(s, 1, Len(s) - 1)) * 10 + DigitValue(s[Len(s)])

AllDigits(s) == s # <<>> /\ \A k \in 1..Len(s) : IsDigit(s[k])

\* int(s): surrounding whitespace is ignored, then an optional sign, then one
\* or more decimal digits; anything else raises ValueError
PyInt(s) ==
    LET t == Strip(s)
        signed == t # <<>> /\ Head(t) \in {"+", "-"}
        body == IF signed THEN Tail(t) ELSE t
    IN  IF ~AllDigits(body) THEN [ok |-> FALSE, exc |-> "ValueError"]
        ELSE [ok |-> TRUE,
              val |-> IF signed /\ Head(t) = "-" THEN 0 - DigitsValue(body)
                      ELSE DigitsValue(body)]

\* '%02d' and '%04d' of a number that fits
Fmt2(n) == <<DigitChars[((n \div 10) % 10) + 1], DigitChars[(n % 10) + 1]>>
Fmt4(n) == Fmt2(n \div 100) \o Fmt2(n % 100)

(***************************************************************************)
(* Paths: a path is the text of the path relative to the scanned           *)
(* directory; its name is the part after the last "/".                    *)
(***************************************************************************)
\* The position of the last "/" of p, 0 when there is none
LastSlash(p) ==
    LET slashes == { k \in 1..Len(p) : p[k] = "/" }
    IN  IF slashes = {} THEN 0 ELSE CHOOSE k \in slashes : \A j \in slashes : j <= k

\* Path.name
Name(p) == SliceFrom(p, LastSlash(p))

(***************************************************************************)
(* datetime and datetime_from_igc                                          *)
(***************************************************************************)
Raise(e) == [ok |-> FALSE, exc |-> e]

IsLeap(y) == (y % 4 = 0 /\ y % 100 # 0) \/ y % 400 = 0

DaysInMonth(y, m) ==
    IF m = 2 THEN (IF IsLeap(y) THEN 29 ELSE 28)
    ELSE IF m \in {4, 6, 9, 11} THEN 30 ELSE 31

\* datetime(year, month, day, hour, minute, second): ValueError when a field
\* is out of range, nothing is normalised
MakeDatetime(year, month, day, hour, minute, second) ==
    IF /\ year \in 1..9999
       /\ month \in 1..12
       /\ day \in 1..DaysInMonth(year, month)
       /\ hour \in 0..23
       /\ minute \in 0..59
       /\ second \in 0..59
    THEN [ok |-> TRUE,
          date |-> [year |-> year, month |-> month, day |-> day,
                    hour |-> hour, minute |-> minute, second |-> second]]
    ELSE Raise("ValueError")

HFDTE == <<"H", "F", "D", "T", "E">>
HFTZNTIMEZONE == <<"H", "F", "T", "Z", "N", "T", "I", "M", "E", "Z", "O", "N", "E">>

\* line[14:] is what int() reads of a HFTZNTIMEZONE line (line 574)
TimezoneValueOffset == 14

\* The year of the century the two-digit year is added to (line 572)
CenturyBase == 2000

\* hour += timezone_offset (line 577)
AddOffset(hour, timezone_offset) == hour + timezone_offset

\* return datetime(year, month, day, hour, minute, second): a name that was
\* never assigned raises UnboundLocalError, year being read first
DfiReturn(st) ==
    IF ~st.dateBound \/ ~st.timeBound THEN Raise("UnboundLocalError")
    ELSE MakeDatetime(st.year, st.month, st.day, st.hour, st.minute, st.second)

\* The for loop of datetime_from_igc from line k of the file on
RECURSIVE DfiLoop(_, _, _)
DfiLoop(lines, k, st) ==
    IF k > Len(lines) THEN DfiReturn(st)
    ELSE LET line == Strip(lines[k]) IN
         IF StartsWith(line, HFDTE)
         THEN LET day == PyInt(Slice(line, 5, 7))
                  month == PyInt(Slice(line, 7, 9))
                  year == PyInt(SliceFrom(line, 9))
              IN  IF ~day.ok \/ ~month.ok \/ ~year.ok THEN Raise("ValueError")
                  ELSE DfiLoop(lines, k + 1,
                               [st EXCEPT !.dateBound = TRUE, !.day = day.val,
                                          !.month = month.val,
                                          !.year = year.val + CenturyBase])
         ELSE IF StartsWith(line, HFTZNTIMEZONE)
         THEN LET timezone_offset == PyInt(SliceFrom(line, TimezoneValueOffset))
              IN  IF ~timezone_offset.ok THEN Raise("ValueError")
                  ELSE DfiLoop(lines, k + 1,
                               [st EXCEPT !.timezone_offset = timezone_offset.val])
         ELSE IF StartsWith(line, <<"B">>)
         THEN LET hour == PyInt(Slice(line, 1, 3))
                  minute == PyInt(Slice(line, 3, 5))
                  second == PyInt(Slice(line, 5, 7))
              IN  IF ~hour.ok \/ ~minute.ok \/ ~second.ok THEN Raise("ValueError")
                  ELSE DfiReturn([st EXCEPT
                                    !.timeBound = TRUE,
                                    !.hour = AddOffset(hour.val, st.timezone_offset),
                                    !.minute = minute.val,
                                    !.second = second.val])
         ELSE DfiLoop(lines, k + 1, st)

\* datetime_from_igc(path), on the lines of the file
datetime_from_igc(lines) ==
    DfiLoop(lines, 1,
            [dateBound |-> FALSE, timeBound |-> FALSE, timezone_offset |-> 0,
             day |-> 0, month |-> 0, year |-> 0, hour |-> 0, minute |-> 0, second |-> 0])

\* Tracklog.date_string: date.strftime('%Y-%m-%d %H:%M')
date_string(date) ==
    Fmt4(date.year) \o <<"-">> \o Fmt2(date.month) \o <<"-">> \o Fmt2(date.day)
        \o <<" ">> \o Fmt2(date.hour) \o <<":">> \o Fmt2(date.minute)

(***************************************************************************)
(* parse_b_record, parse_tracklog_line, parse_tracklog_header              *)
(***************************************************************************)
\* parse_b_record(b_record): every field is a slice, which never raises,
\* but fix_validity is b_record[24], which raises IndexError
parse_b_record(b_record) ==
    IF ~HasIndex(b_record, 24) THEN Raise("IndexError")
    ELSE [ok |-> TRUE,
          record |-> [time_utc |-> Slice(b_record, 1, 7),
                      latitude |-> Slice(b_record, 7, 15),
                      longitude |-> Slice(b_record, 15, 24),
                      fix_validity |-> <<b_record[24 + 1]>>,
                      press_alt |-> Slice(b_record, 25, 30),
                      gnss_alt |-> Slice(b_record, 30, 35),
                      fix_accuracy |-> Slice(b_record, 35, 38),
                      satellites_in_use |-> Slice(b_record, 38, 40),
                      engine_noise |-> Slice(b_record, 40, 43),
                      rpm |-> Slice(b_record, 43, 46),
                      carriage_return |-> Slice(b_record, 46, 48),
                      line_feed |-> Slice(b_record, 48, 50)]]

RECURSIVE CountChar(_, _)
CountChar(s, c) ==
    IF s = <<>> THEN 0 ELSE (IF Head(s) = c THEN 1 ELSE 0) + CountChar(Tail(s), c)

\* float(s) on text of digits, sign, point and whitespace: ValueError unless
\* it is an optionally signed decimal numeral with at least one digit.
\* The value is kept as the digits and the number of digits after the point.
PyFloat(s) ==
    LET t == Strip(s)
        signed == t # <<>> /\ Head(t) \in {"+", "-"}
        body == IF signed THEN Tail(t) ELSE t
        digits == SelectSeq(body, LAMBDA c : c # ".")
        point == CHOOSE k \in 0..Len(body) :
                    IF CountChar(body, ".") = 0 THEN k = Len(body)
                    ELSE k > 0 /\ body[k] = "." /\ CountChar(SubSeq(body, 1, k), ".") = 1
    IN  IF CountChar(body, ".") > 1 \/ ~AllDigits(digits) THEN Raise("ValueError")
        ELSE [ok |-> TRUE,
              negative |-> signed /\ Head(t) = "-",
              digits |-> digits,
              decimals |-> Len(body) - point]

\* x / 100000 of such a value: five more digits after the point
Div100000(x) == [negative |-> x.negative, digits |-> x.digits, decimals |-> x.decimals + 5]

\* parse_tracklog_line(line): the dict display evaluates its values in order
\* and the first conversion that fails raises
parse_tracklog_line(line) ==
    LET latitude == PyFloat(Slice(line, 7, 14))
        longitude == PyFloat(Slice(line, 15, 23))
        pressure_altitude == PyInt(Slice(line, 25, 30))
        gps_altitude == PyInt(Slice(line, 30, 35))
        ground_speed == PyInt(Slice(line, 35, 40))
        track_angle == PyInt(Slice(line, 40, 43))
        num_satellites == PyInt(Slice(line, 44, 46))
    IN  IF ~latitude.ok \/ ~longitude.ok \/ ~pressure_altitude.ok \/ ~gps_altitude.ok
           \/ ~ground_speed.ok \/ ~track_angle.ok
        THEN Raise("ValueError")
        ELSE IF ~HasIndex(line, 43) THEN Raise("IndexError")
        ELSE IF ~num_satellites.ok THEN Raise("ValueError")
        ELSE [ok |-> TRUE,
              record |-> [fix_time |-> Slice(line, 1, 7),
                          latitude |-> Div100000(latitude),
                          longitude |-> Div100000(longitude),
                          pressure_altitude |-> pressure_altitude.val,
                          gps_altitude |-> gps_altitude.val,
                          ground_speed |-> ground_speed.val,
                          track_angle |-> track_angle.val,
                          fix_valid |-> line[43 + 1] = "A",
                          num_satellites |-> num_satellites.val]]

\* The records table of parse_tracklog_header: code -> key
HeaderRecords ==
    [HFDTE |-> "date", HFFXA |-> "fix_accuracy", HFPLT |-> "pilot",
     HFCM2 |-> "second_pilot", HFGTY |-> "glider_type", HFGID |-> "glider_id",
     HFDTM |-> "gps_datum", HFRFW |-> "firmware_version",
     HFRHW |-> "hardware_version", HFFTY |-> "manufacturer_model", HFGPS |-> "gps",
     HFPRS |-> "pressure_sensor", HFCID |-> "competition_id",
     HFCCL |-> "competition_class", HFTZN |-> "time_zone", HFSIT |-> "site"]

\* The five-character codes as text
CodeText ==
    [HFDTE |-> HFDTE,
     HFFXA |-> <<"H", "F", "F", "X", "A">>, HFPLT |-> <<"H", "F", "P", "L", "T">>,
     HFCM2 |-> <<"H", "F", "C", "M", "2">>, HFGTY |-> <<"H", "F", "G", "T", "Y">>,
     HFGID |-> <<"H", "F", "G", "I", "D">>, HFDTM |-> <<"H", "F", "D", "T", "M">>,
     HFRFW |-> <<"H", "F", "R", "F", "W">>, HFRHW |-> <<"H", "F", "R", "H", "W">>,
     HFFTY |-> <<"H", "F", "F", "T", "Y">>, HFGPS |-> <<"H", "F", "G", "P", "S">>,
     HFPRS |-> <<"H", "F", "P", "R", "S">>, HFCID |-> <<"H", "F", "C", "I", "D">>,
     HFCCL |-> <<"H", "F", "C", "C", "L">>, HFTZN |-> <<"H", "F", "T", "Z", "N">>,
     HFSIT |-> <<"H", "F", "S", "I", "T">>]

RECURSIVE LastColon(_)
LastColon(s) ==
    IF s = <<>> THEN 0
    ELSE IF s[Len(s)] = ":" THEN Len(s) ELSE LastColon(SubSeq(s, 1, Len(s) - 1))

\* line.split(':')[-1]
AfterLastColon(s) == SliceFrom(s, LastColon(s))

\* header[key] = value
SetItem(header, key, value) ==
    [k \in DOMAIN header \cup {key} |-> IF k = key THEN value ELSE header[k]]

\* One line of the loop of parse_tracklog_header (lines 507-514)
HeaderLine(header, rawline) ==
    LET line == Strip(rawline)
        codes == { c \in DOMAIN CodeText : CodeText[c] = Slice(line, 0, 5) }
        h1 == IF codes = {} THEN header
              ELSE SetItem(header, HeaderRecords[CHOOSE c \in codes : TRUE],
                           AfterLastColon(line))
    IN  IF StartsWith(line, HFDTE) THEN SetItem(h1, "date", SliceFrom(line, 5)) ELSE h1

RECURSIVE HeaderLoop(_, _, _)
HeaderLoop(lines, k, header) ==
    IF k > Len(lines) THEN header
    ELSE HeaderLoop(lines, k + 1, HeaderLine(header, lines[k]))

\* parse_tracklog_header(path), on the lines of the file
parse_tracklog_header(lines) == HeaderLoop(lines, 1, <<>>)

(***************************************************************************)
(* Lines of IGC files                                                      *)
(***************************************************************************)
\* Decimal text of a natural number below 100, without padding
IntText(n) == IF n < 10 THEN <<DigitChars[n + 1]>> ELSE Fmt2(n)

\* The fields of a B record after the time: latitude, longitude, validity,
\* pressure altitude, GNSS altitude
BRecordRest == <<"0", "0", "0", "0", "0", "0", "0", "N", "0", "0", "0", "0", "0", "0", "0", "0", "E", "A", "0", "0", "1", "0", "0", "0", "0", "1", "0", "0">>

\* The same record followed by the fields parse_tracklog_line reads after
\* the altitudes
BRecordExtension == <<"0", "0", "0", "1", "2", "0", "9", "0", "A", "0", "7">>

DateLine(day, month, yy) == HFDTE \o Fmt2(day) \o Fmt2(month) \o Fmt2(yy) \o <<"\n">>
TzLine(sep, k) == HFTZNTIMEZONE \o sep \o IntText(k) \o <<"\n">>
BLine(hour, minute, second) ==
    <<"B">> \o Fmt2(hour) \o Fmt2(minute) \o Fmt2(second) \o BRecordRest \o <<"\n">>

(***************************************************************************)
(* remove_duplicate_files                                                  *)
(***************************************************************************)
\* Bounds of the scanned tree
MaxFiles == 3
MaxUndeletable == 1

\* The paths a scan may find: names of 5, 6, 6 and 12 characters, and a
\* second A.IGC in a subdirectory (rglob is recursive).
DedupPaths ==
    { <<"A", ".", "I", "G", "C">>,
      <<"B", "B", ".", "I", "G", "C">>,
      <<"C", "C", ".", "I", "G", "C">>,
      <<"L", "O", "N", "G", "N", "A", "M", "E", ".", "I", "G", "C">>,
      <<"o", "l", "d", "/", "A", ".", "I", "G", "C">> }

\* File contents, as bytes
Contents == { <<66, 49>>, <<66, 50>> }

\* xxh3_64_hexdigest(bytes, seed=0) is a fixed function of the bytes alone.
\* The 64-bit digest is not computable here; a positional checksum of the
\* bytes stands for it.
RECURSIVE XXH3(_)
XXH3(bytes) ==
    IF bytes = <<>> THEN 7
    ELSE (XXH3(SubSeq(bytes, 1, Len(bytes) - 1)) * 31 + bytes[Len(bytes)]) % 65521

\* xxhash(path): the checksum of the file's bytes
xxhash(f) == XXH3(content[f])

\* max([f, existing], key=lambda x: len(x.name)): the first maximal element
LongestFilename(f, existing) ==
    IF Len(Name(existing)) > Len(Name(f)) THEN existing ELSE f

Range(s) == { s[k] : k \in 1..Len(s) }

ScanOrders ==
    { s \in UNION { [1..n -> DedupPaths] : n \in 0..MaxFiles } :
        \A a, b \in 1..Len(s) : a # b => s[a] # s[b] }

MainIdle ==
    /\ dir = {} /\ skip = <<>> /\ pc = "idle" /\ tracklogs = <<>> /\ flights = {}
    /\ i = 1 /\ posted = <<>> /\ cycle = 0 /\ exc = "none" /\ listing = <<>>
    /\ skipAtGlob = <<>> /\ dirAtGlob = {} /\ dirAtPrevGlob = {}

ParseIdle == input = [kind |-> "none"] /\ output = [done |-> FALSE]

DedupIdle ==
    /\ files = <<>> /\ content = <<>> /\ undeletable = {} /\ disk = {}
    /\ hashes = <<>> /\ removed = <<>> /\ pos = 1 /\ rdf = "idle" /\ rdfExc = "none"

\* State at entry of remove_duplicate_files: hashes = {}, removed = []
InitDedup ==
    /\ files \in ScanOrders
    /\ content \in [Range(files) -> Contents]
    /\ undeletable \in { u \in SUBSET Range(files) : Cardinality(u) <= MaxUndeletable }
    /\ disk = Range(files)
    /\ hashes = <<>>
    /\ removed = <<>>
    /\ pos = 1
    /\ rdf = "scanning"
    /\ rdfExc = "none"
    /\ MainIdle
    /\ ParseIdle

RdfRaise(e) == rdf' = "raised" /\ rdfExc' = e

\* One iteration of the for loop (lines 399-414)
RdfStep ==
    /\ rdf = "scanning"
    /\ pos <= Len(files)
    /\ LET f == files[pos] IN
       IF f \notin disk
       THEN \* read_bytes of a file that is gone
            /\ RdfRaise("FileNotFoundError")
            /\ UNCHANGED <<disk, hashes, removed, pos>>
       ELSE LET checksum == xxhash(f) IN
            IF checksum \in DOMAIN hashes
            THEN LET existing == hashes[checksum]
                     longest_filename == LongestFilename(f, existing)
                 IN  /\ removed' = Append(removed, longest_filename)
                     /\ hashes' = hashes
                     /\ IF longest_filename \notin disk
                        THEN /\ RdfRaise("FileNotFoundError")
                             /\ UNCHANGED <<disk, pos>>
                        ELSE IF longest_filename \in undeletable
                        THEN /\ RdfRaise("PermissionError")
                             /\ UNCHANGED <<disk, pos>>
                        ELSE /\ disk' = disk \ {longest_filename}
                             /\ pos' = pos + 1
                             /\ UNCHANGED <<rdf, rdfExc>>
            ELSE /\ hashes' = (checksum :> f) @@ hashes
                 /\ pos' = pos + 1
                 /\ UNCHANGED <<disk, removed, rdf, rdfExc>>
    /\ UNCHANGED <<files, content, undeletable>>
    /\ UNCHANGED <<mainVars, parseVars>>

\* return removed (line 416)
RdfReturn ==
    /\ rdf = "scanning"
    /\ pos > Len(files)
    /\ rdf' = "returned"
    /\ UNCHANGED <<files, content, undeletable, disk, hashes, removed, pos, rdfExc>>
    /\ UNCHANGED <<mainVars, parseVars>>

NextDedup == RdfStep \/ RdfReturn

SpecDedup == InitDedup /\ [][NextDedup]_vars

(***************************************************************************)
(* Claims about remove_duplicate_files (checked under SpecDedup)           *)
(***************************************************************************)
RdfEnded == rdf \in {"returned", "raised"}

\* The files of the scan whose checksum is c
FingerprintClass(c) == { f \in Range(files) : xxhash(f) = c }

Fingerprints == { xxhash(f) : f \in Range(files) }

PairwiseDifferentLengths(S) ==
    \A a, b \in S : a # b => Len(Name(a)) # Len(Name(b))

\* C1: once remove_duplicate_files has run over the tree, whatever the scan
\* order and with no unlink refused, no two files still on disk have the
\* same content fingerprint.
C1_NoDuplicateSurvivors ==
    (RdfEnded /\ undeletable = {}) =>
        \A a, b \in disk : a # b => xxhash(a) # xxhash(b)

\* C2: once remove_duplicate_files has run, with no unlink refused, of every
\* fingerprint class whose names have pairwise different lengths exactly the
\* file with the shortest name is still on disk.
C2_ShortestSurvives ==
    (RdfEnded /\ undeletable = {}) =>
        \A c \in Fingerprints :
            PairwiseDifferentLengths(FingerprintClass(c)) =>
                \A f \in FingerprintClass(c) :
                    f \in disk <=>
                        \A g \in FingerprintClass(c) : Len(Name(f)) <= Len(Name(g))

\* C5: a refused unlink does not end the scan: the loop goes on to the
\* remaining files (or has returned after visiting all of them).
C5_DeletionFailureContinues ==
    rdfExc = "PermissionError" => rdf \in {"scanning", "returned"}

\* C10: with no unlink refused, after every step of the scan the kept entry
\* of every fingerprint is a file that exists on disk, and no file has been
\* put on the removed list twice.
C10_KeptEntryExists ==
    undeletable = {} =>
        /\ \A c \in DOMAIN hashes : hashes[c] \in disk
        /\ \A a, b \in 1..Len(removed) : a # b => removed[a] # removed[b]

\* Not a claim: what does hold of the calls that return
ReturnedLeavesNoDuplicates ==
    rdf = "returned" => \A a, b \in disk : a # b => xxhash(a) # xxhash(b)

(***************************************************************************)
(* main: the polling loop (lines 610-648).  Init is the state in which     *)
(* remove_duplicate_files (line 619) has returned: skip is empty and the   *)
(* watched directory holds any of the local files.                         *)
(***************************************************************************)
\* Number of iterations of while True that are explored
MaxCycles == 3

\* The files that can be in the watched directory, all directly in it:
\* name -> lines.  D4.IGC has no date header; notes.txt is no *.IGC file.
NameA1 == <<"A", "1", ".", "I", "G", "C">>
NameB2 == <<"B", "2", ".", "I", "G", "C">>
NameC3 == <<"C", "3", ".", "I", "G", "C">>
NameD4 == <<"D", "4", ".", "I", "G", "C">>
NameNotes == <<"n", "o", "t", "e", "s", ".", "t", "x", "t">>

LocalNames == { NameA1, NameB2, NameC3, NameD4, NameNotes }

LocalLines(name) ==
    CASE name = NameA1 -> <<DateLine(2, 7, 23), TzLine(<<"+">>, 2), BLine(10, 30, 45)>>
      [] name = NameB2 -> <<DateLine(3, 7, 23), BLine(9, 15, 0), BLine(9, 15, 1)>>
      [] name = NameC3 -> <<DateLine(2, 7, 23), BLine(12, 30, 10)>>
      [] name = NameD4 -> <<TzLine(<<"+">>, 2), BLine(10, 30, 45)>>
      [] name = NameNotes -> << <<"n", "o", "t", "e", "s", "\n">> >>

\* The strings flightlog.flights() can return: every td text that starts
\* like 'YYYY-MM-DD HH:MM' (is_date_string uses re.match)
RemoteStrings ==
    { <<"2", "0", "2", "3", "-", "0", "7", "-", "0", "2", " ", "1", "2", ":", "3", "0">>,
      <<"2", "0", "2", "3", "-", "0", "7", "-", "0", "3", " ", "0", "9", ":", "1", "5">>,
      <<"2", "0", "2", "3", "-", "0", "7", "-", "0", "3", " ", "0", "9", ":", "1", "5", ":", "0", "0">> }

\* Characters in code point order, for comparing paths
CodePoints ==
    << ".", "/", "0", "1", "2", "3", "4", "5", "6", "7", "8", "9",
       "A", "B", "C", "D", "E", "F", "G", "H", "I", "J", "K", "L", "M",
       "N", "O", "P", "Q", "R", "S", "T", "U", "V", "W", "X", "Y", "Z",
       "a", "b", "c", "d", "e", "f", "g", "h", "i", "j", "k", "l", "m",
       "n", "o", "p", "q", "r", "s", "t", "u", "v", "w", "x", "y", "z" >>

Ord(c) == CHOOSE k \in 1..Len(CodePoints) : CodePoints[k] = c

\* a < b for two paths of one directory: comparison of the names as strings
RECURSIVE PathLess(_, _)
PathLess(a, b) ==
    IF b = <<>> THEN FALSE
    ELSE IF a = <<>> THEN TRUE
    ELSE IF Head(a) = Head(b) THEN PathLess(Tail(a), Tail(b))
    ELSE Ord(Head(a)) < Ord(Head(b))

\* A faulty variant: the pattern is written in lower case
GlobIGCLowerCase(d) == { n \in d : EndsWith(n, <<".", "i", "g", "c">>) /\ Len(n) >= 4 }

\* path.glob('*.IGC'): the names of the directory that end in .IGC
GlobIGC(d) == { n \in d : EndsWith(n, <<".", "I", "G", "C">>) /\ Len(n) >= 4 }

\* Tracklog(f): header attributes, then date = datetime_from_igc(path)
Tracklog(f) ==
    LET date == datetime_from_igc(LocalLines(f)) IN
    IF ~date.ok THEN date
    ELSE [ok |-> TRUE,
          tracklog |-> [path |-> f,
                        header |-> parse_tracklog_header(LocalLines(f)),
                        date |-> date.date]]

\* The lines of a file never change during a run, so Tracklog(f) of one name
\* is the same object in every cycle: computed once per name
TracklogOfFile == [f \in LocalNames |-> Tracklog(f)]

\* sorted(..., key=lambda x: x.path): insertion into the sorted prefix
RECURSIVE InsertByPath(_, _)
InsertByPath(sorted, t) ==
    IF sorted = <<>> THEN <<t>>
    ELSE IF PathLess(t.path, Head(sorted).path) THEN <<t>> \o sorted
    ELSE <<Head(sorted)>> \o InsertByPath(Tail(sorted), t)

RECURSIVE SortLoop(_, _)
SortLoop(done, rest) ==
    IF rest = <<>> THEN done ELSE SortLoop(InsertByPath(done, Head(rest)), Tail(rest))

\* A faulty variant: the tracklogs are left in listing order
SortByPathListingOrder(ts) == ts

SortByPath(ts) == SortLoop(<<>>, ts)

\* All orders in which a directory listing can return the set S
Listings(S) ==
    { s \in [1..Cardinality(S) -> S] : \A a, b \in 1..Cardinality(S) : a # b => s[a] # s[b] }

\* tracklog.date_string not in flights (line 635)
NotRegistered(tracklog, registered) == date_string(tracklog.date) \notin registered

\* A faulty variant: a file whose submission failed is not put on the list
SkipAppendUnlessFailed(skipList, tracklog, outcome) ==
    IF outcome = "failed" THEN skipList ELSE Append(skipList, Name(tracklog.path))

\* skip.append(tracklog.path.name) (line 646), whatever new_flight returned
SkipAppend(skipList, tracklog, outcome) == Append(skipList, Name(tracklog.path))

Init ==
    /\ dir \in SUBSET LocalNames
    /\ skip = <<>>
    /\ pc = "glob"
    /\ tracklogs = <<>>
    /\ flights = {}
    /\ i = 1
    /\ posted = <<>>
    /\ cycle = 1
    /\ exc = "none"
    /\ listing = <<>>
    /\ skipAtGlob = <<>>
    /\ dirAtGlob = {}
    /\ dirAtPrevGlob = {}
    /\ DedupIdle
    /\ ParseIdle

Crash(e) == pc' = "crashed" /\ exc' = e

\* Line 623: list the directory, build a Tracklog of every file not in skip,
\* sort them by path.  The first Tracklog that cannot be built raises.
Glob ==
    /\ pc = "glob"
    /\ \E found \in { { f \in GlobIGC(dir) : Name(f) \notin Range(skip) } } :
       \E order \in Listings(found) :
          LET built == [k \in 1..Len(order) |-> TracklogOfFile[order[k]]]
              bad == { k \in 1..Len(order) : ~built[k].ok }
          IN  /\ listing' = order
              /\ IF bad # {}
                 THEN /\ Crash(built[CHOOSE k \in bad : \A j \in bad : k <= j].exc)
                      /\ tracklogs' = <<>>
                 ELSE /\ tracklogs' = SortByPath([k \in 1..Len(order) |-> built[k].tracklog])
                      /\ pc' = IF order = <<>> THEN "sleep" ELSE "session"
                      /\ exc' = exc
    /\ i' = 1
    /\ skipAtGlob' = skip
    /\ dirAtGlob' = dir
    /\ dirAtPrevGlob' = dirAtGlob
    /\ UNCHANGED <<dir, skip, flights, posted, cycle>>
    /\ UNCHANGED <<dedupVars, parseVars>>

\* Lines 627-631: new session, login, flights = flightlog.flights(); a
\* request that raises ends main
Session ==
    /\ pc = "session"
    /\ \/ /\ flights' \in SUBSET RemoteStrings
          /\ pc' = "for"
          /\ exc' = exc
       \/ /\ Crash("ConnectionError")
          /\ flights' = flights
    /\ UNCHANGED <<dir, skip, tracklogs, i, posted, cycle, listing, skipAtGlob,
                   dirAtGlob, dirAtPrevGlob>>
    /\ UNCHANGED <<dedupVars, parseVars>>

\* Lines 634-646: one tracklog of the for loop
ForStep ==
    /\ pc = "for"
    /\ i <= Len(tracklogs)
    /\ LET tracklog == tracklogs[i]
           after == IF i + 1 > Len(tracklogs) THEN "sleep" ELSE "for"
       IN  IF NotRegistered(tracklog, flights)
           THEN \E outcome \in {"ok", "failed", "raised"} :
                   /\ posted' = Append(posted, [cycle |-> cycle,
                                                name |-> Name(tracklog.path),
                                                outcome |-> outcome])
                   /\ IF outcome = "raised"
                      THEN /\ Crash("ConnectionError")
                           /\ UNCHANGED <<skip, i>>
                      ELSE /\ skip' = SkipAppend(skip, tracklog, outcome)
                           /\ i' = i + 1
                           /\ pc' = after
                           /\ exc' = exc
           ELSE /\ skip' = SkipAppend(skip, tracklog, "registered")
                /\ i' = i + 1
                /\ pc' = after
                /\ UNCHANGED <<posted, exc>>
    /\ UNCHANGED <<dir, tracklogs, flights, cycle, listing, skipAtGlob, dirAtGlob,
                   dirAtPrevGlob>>
    /\ UNCHANGED <<dedupVars, parseVars>>

\* Line 648: sleep(), then the next iteration of while True
Sleep ==
    /\ pc = "sleep"
    /\ cycle < MaxCycles
    /\ pc' = "glob"
    /\ cycle' = cycle + 1
    /\ UNCHANGED <<dir, skip, tracklogs, flights, i, posted, exc, listing, skipAtGlob,
                   dirAtGlob, dirAtPrevGlob>>
    /\ UNCHANGED <<dedupVars, parseVars>>

\* A file is put into the watched directory while main sleeps (a file that
\* appears at another moment is first seen by the next listing as well)
NewFile ==
    /\ pc = "sleep"
    /\ \E n \in LocalNames \ dir : dir' = dir \cup {n}
    /\ UNCHANGED <<skip, pc, tracklogs, flights, i, posted, cycle, exc, listing,
                   skipAtGlob, dirAtGlob, dirAtPrevGlob>>
    /\ UNCHANGED <<dedupVars, parseVars>>

Next == Glob \/ Session \/ ForStep \/ Sleep \/ NewFile

Spec == Init /\ [][Next]_vars

(***************************************************************************)
(* Claims about main (checked under Spec)                                  *)
(***************************************************************************)
\* The canonical 'YYYY-MM-DD HH:MM' timestamp of each local file that has
\* one, written out: A1 is 10:30 plus two hours on 2 July 2023, C3 is the
\* same minute, B2 is 09:15 on 3 July 2023
CanonicalTimestamp(name) ==
    CASE name = NameA1 -> <<"2", "0", "2", "3", "-", "0", "7", "-", "0", "2", " ", "1", "2", ":", "3", "0">>
      [] name = NameB2 -> <<"2", "0", "2", "3", "-", "0", "7", "-", "0", "3", " ", "0", "9", ":", "1", "5">>
      [] name = NameC3 -> <<"2", "0", "2", "3", "-", "0", "7", "-", "0", "2", " ", "1", "2", ":", "3", "0">>

\* The names new_flight was called with in the current cycle, in call order
RECURSIVE NamesOfCycle(_, _)
NamesOfCycle(log, c) ==
    IF log = <<>> THEN <<>>
    ELSE (IF Head(log).cycle = c THEN <<Head(log).name>> ELSE <<>>)
            \o NamesOfCycle(Tail(log), c)

SubmittedThisCycle == NamesOfCycle(posted, cycle)

StrictlyAscending(names) ==
    \A k \in 1..(Len(names) - 1) : PathLess(names[k], names[k + 1])

\* The local *.IGC files the current cycle listed that were not in the skip
\* list and whose timestamp is not among the fetched flights
Worklist ==
    { n \in GlobIGC(dirAtGlob) :
        Name(n) \notin Range(skipAtGlob) /\ CanonicalTimestamp(n) \notin flights }

CycleRunning == pc = "for" \/ (pc = "crashed" /\ tracklogs # <<>>)
CycleComplete == pc = "sleep"

\* C3: in each cycle the files submitted are exactly the listed files not in
\* the skip list whose canonical timestamp is no member of the flights
\* fetched for the cycle, in strictly ascending path order: while the for
\* loop runs, those of them reached so far; when the cycle is complete, all.
C3_WorklistSubmittedInOrder ==
    /\ (CycleRunning \/ CycleComplete) =>
          /\ StrictlyAscending(SubmittedThisCycle)
          /\ Range(SubmittedThisCycle) \subseteq Worklist
    /\ pc = "for" =>
          Range(SubmittedThisCycle) = { n \in Worklist : n \in Range(skip) }
    /\ CycleComplete => Range(SubmittedThisCycle) = Worklist

\* Scenario C, listed out of order: A1 (2023-07-02 12:30) and B2
\* (2023-07-03 09:15) are local, the flights are {2023-07-02 12:30}, and the
\* completed cycle submitted B2 only
C3_Witness ==
    /\ CycleComplete
    /\ listing = <<NameB2, NameA1>>
    /\ flights = { <<"2", "0", "2", "3", "-", "0", "7", "-", "0", "2", " ", "1", "2", ":", "3", "0">> }
    /\ SubmittedThisCycle = <<NameB2>>

\* A completed cycle that submitted two files although the listing returned
\* them in descending order
C3_WitnessOrder ==
    /\ CycleComplete
    /\ listing = <<NameB2, NameA1>>
    /\ SubmittedThisCycle = <<NameA1, NameB2>>

\* C4: every file a cycle has processed (submitted, with success or not, or
\* found registered) is in the skip list; no file in the skip list is in a
\* later cycle's worklist; a cycle that lists the same directory as the
\* cycle before it has an empty worklist; no file is submitted twice.
C4_ProcessedNeverReconsidered ==
    /\ \A k \in 1..Len(posted) :
          posted[k].outcome # "raised" => posted[k].name \in Range(skip)
    /\ \A a, b \in 1..Len(posted) : a # b => posted[a].name # posted[b].name
    /\ \A k \in 1..Len(tracklogs) :
          /\ Name(tracklogs[k].path) \notin Range(skipAtGlob)
          /\ k < i => Name(tracklogs[k].path) \in Range(skip)
          /\ (k >= i /\ pc \in {"session", "for"}) =>
                Name(tracklogs[k].path) \notin Range(skip)
    /\ \A k \in 1..Len(skipAtGlob) : k <= Len(skip) /\ skip[k] = skipAtGlob[k]
    /\ (cycle > 1 /\ pc \in {"session", "for", "sleep"} /\ dirAtGlob = dirAtPrevGlob) =>
          tracklogs = <<>>

\* The second cycle listed the directory of the first, in which a
\* submission had failed and another file was found registered, and has
\* nothing to do
C4_Witness ==
    /\ cycle = 2
    /\ pc = "sleep"
    /\ dirAtGlob = dirAtPrevGlob
    /\ Len(skip) = 2
    /\ Len(posted) = 1
    /\ posted[1].outcome = "failed"
    /\ tracklogs = <<>>

\* C6: a local file from which no timestamp can be derived does not stop
\* the batch: main is not ended by the exception of building its Tracklog.
C6_UnparseableFileDoesNotStopBatch ==
    ~(pc = "crashed" /\ exc \in {"UnboundLocalError", "ValueError"})

(***************************************************************************)
(* main when every local file is parseable, no request raises and the      *)
(* cycles keep being scheduled (SpecLive)                                  *)
(***************************************************************************)
ParseableNames == { n \in LocalNames : datetime_from_igc(LocalLines(n)).ok \/ n \notin GlobIGC({n}) }

InitLive == Init /\ dir \subseteq ParseableNames

\* login, flights() and new_flight return
SessionLive == Session /\ pc' # "crashed"
ForStepLive == ForStep /\ pc' # "crashed"

\* Line 648 without a last cycle: sleep() returns and while True goes on.
\* The cycle number, which main does not keep, stops counting at MaxCycles.
SleepLive ==
    /\ pc = "sleep"
    /\ pc' = "glob"
    /\ cycle' = IF cycle < MaxCycles THEN cycle + 1 ELSE cycle
    /\ UNCHANGED <<dir, skip, tracklogs, flights, i, posted, exc, listing, skipAtGlob,
                   dirAtGlob, dirAtPrevGlob>>
    /\ UNCHANGED <<dedupVars, parseVars>>

NewFileLive == NewFile /\ dir' \subseteq ParseableNames

NextLive == Glob \/ SessionLive \/ ForStepLive \/ SleepLive \/ NewFileLive

\* main is one sequential thread: each of its steps is taken once it is
\* reached.  Nothing is assumed about files being put into the directory.
SpecLive ==
    /\ InitLive
    /\ [][NextLive]_vars
    /\ WF_vars(Glob)
    /\ WF_vars(SessionLive)
    /\ WF_vars(ForStepLive)
    /\ WF_vars(SleepLive)

PostedNames == { posted[k].name : k \in 1..Len(posted) }

\* The files the current cycle has processed so far
ProcessedThisCycle ==
    { n \in GlobIGC(dirAtGlob) : Name(n) \in Range(skip) /\ Name(n) \notin Range(skipAtGlob) }

\* A file the current cycle processed was submitted if its timestamp was
\* absent from the flights fetched in the cycle, and skipped otherwise
ProcessedAsFetched ==
    pc \in {"for", "sleep"} =>
        \A n \in ProcessedThisCycle : n \in PostedNames <=> CanonicalTimestamp(n) \notin flights

\* C11: with every local file parseable, no request raising and the cycles
\* going on, every *.IGC file in the watched directory, also one that
\* appears after the start, is eventually in the skip list, having been
\* submitted if its timestamp was absent from the flights fetched in the
\* cycle that processed it and skipped otherwise.
C11_EveryFileEventuallyProcessed ==
    /\ []ProcessedAsFetched
    /\ \A n \in { m \in LocalNames : EndsWith(m, <<".", "I", "G", "C">>) } :
          (n \in dir) ~> (Name(n) \in Range(skip))

\* B2.IGC was not in the directory when the cycle before listed it, was
\* found by the current cycle, submitted, and is in the skip list
C11_Witness ==
    /\ cycle > 1
    /\ NameB2 \notin dirAtPrevGlob
    /\ NameB2 \in dirAtGlob
    /\ NameB2 \in ProcessedThisCycle
    /\ NameB2 \in PostedNames
    /\ CanonicalTimestamp(NameB2) \notin flights

(***************************************************************************)
(* The decoders applied to one input (SpecParse)                           *)
(***************************************************************************)
\* Inputs of datetime_from_igc: header dates as <<DD, MM, YY>>, first-fix
\* times, and the ways the offset is written after HFTZNTIMEZONE
InputDates == { <<2, 7, 23>>, <<23, 7, 2>>, <<31, 12, 23>>, <<1, 1, 24>> }
InputHours == { 0, 1, 10, 22, 23 }
InputMinutes == { 30, 59 }
InputSeparators == { <<"+">>, <<"-">>, <<>>, <<":">>, <<":", "-">> }
InputOffsets == { 1, 2, 10 }
InputLayouts == { "date_tz_b", "date_b", "tz_b", "date_tz", "b_date" }

FileLines(layout, d, sep, k, hour, minute) ==
    LET date == DateLine(d[1], d[2], d[3])
        zone == TzLine(sep, k)
        fix == BLine(hour, minute, 45)
    IN  CASE layout = "date_tz_b" -> <<date, zone, fix, fix>>
          [] layout = "date_b" -> <<date, fix, fix>>
          [] layout = "tz_b" -> <<zone, fix>>
          [] layout = "date_tz" -> <<date, zone>>
          [] layout = "b_date" -> <<fix, date>>

FileInputs ==
    { [kind |-> "file", layout |-> l, d |-> d, sep |-> sep, k |-> k,
       hour |-> h, minute |-> m, lines |-> FileLines(l, d, sep, k, h, m)] :
        l \in InputLayouts, d \in InputDates, sep \in InputSeparators,
        k \in InputOffsets, h \in InputHours, m \in InputMinutes }

LineTemplates == { BLine(10, 30, 45), Strip(BLine(10, 30, 45)) \o BRecordExtension }

LineInputs ==
    UNION { { [kind |-> "line", line |-> SubSeq(t, 1, n)] : n \in 1..Len(t) } :
              t \in LineTemplates }

InitParse ==
    /\ input \in FileInputs \cup LineInputs
    /\ output = [done |-> FALSE]
    /\ DedupIdle
    /\ MainIdle

Apply(fn, result) ==
    /\ ~output.done
    /\ output' = [done |-> TRUE, fn |-> fn, result |-> result]
    /\ UNCHANGED <<input, dedupVars, mainVars>>

ApplyDatetimeFromIgc ==
    /\ input.kind = "file"
    /\ Apply("datetime_from_igc", datetime_from_igc(input.lines))

ApplyParseTracklogHeader ==
    /\ input.kind = "file"
    /\ Apply("parse_tracklog_header", parse_tracklog_header(input.lines))

ApplyParseBRecord ==
    /\ input.kind = "line"
    /\ Apply("parse_b_record", parse_b_record(input.line))

ApplyParseTracklogLine ==
    /\ input.kind = "line"
    /\ Apply("parse_tracklog_line", parse_tracklog_line(input.line))

NextParse ==
    \/ ApplyDatetimeFromIgc
    \/ ApplyParseTracklogHeader
    \/ ApplyParseBRecord
    \/ ApplyParseTracklogLine

SpecParse == InitParse /\ [][NextParse]_vars

(***************************************************************************)
(* Claims about the decoders (checked under SpecParse)                     *)
(***************************************************************************)
Decoded(fn) == output.done /\ output.fn = fn

\* The offset a file's time-zone header states: none without the header,
\* else the number with the sign written before it
StatedOffset(in) ==
    IF in.layout = "date_b" THEN 0
    ELSE IF in.sep \in { <<"-">>, <<":", "-">> } THEN 0 - in.k ELSE in.k

\* A file of the shape HFDTE<DDMMYY>, optionally HFTZNTIMEZONE<k> with k
\* written with its sign, then the B records
SignedOffsetFile(in) ==
    /\ in.kind = "file"
    /\ \/ in.layout = "date_b"
       \/ in.layout = "date_tz_b" /\ in.sep \in { <<"+">>, <<"-">> }

\* C7: for a file with a date header HFDTE<DDMMYY> and optionally
\* HFTZNTIMEZONE<k>, k a signed number of hours, before its first B record,
\* the derived timestamp has date 20YY-MM-DD and time (HH + k):MM (stated
\* for the files whose HH + k is an hour of the day).
C7_TimestampFromHeaders ==
    ( /\ Decoded("datetime_from_igc")
      /\ SignedOffsetFile(input)
      /\ input.hour + StatedOffset(input) \in 0..23 ) =>
        /\ output.result.ok
        /\ output.result.date.year = 2000 + input.d[3]
        /\ output.result.date.month = input.d[2]
        /\ output.result.date.day = input.d[1]
        /\ output.result.date.hour = input.hour + StatedOffset(input)
        /\ output.result.date.minute = input.minute

\* The calendar day delta days (-1, 0 or 1) after the day <<year, month, day>>
ShiftDay(year, month, day, delta) ==
    IF delta = 0 THEN <<year, month, day>>
    ELSE IF delta = 1
    THEN IF day < DaysInMonth(year, month) THEN <<year, month, day + 1>>
         ELSE IF month < 12 THEN <<year, month + 1, 1>> ELSE <<year + 1, 1, 1>>
    ELSE IF day > 1 THEN <<year, month, day - 1>>
         ELSE IF month > 1 THEN <<year, month - 1, DaysInMonth(year, month - 1)>>
         ELSE <<year - 1, 12, 31>>

\* A file whose offset the decoder reads as it is written: no header, or the
\* number after one separator character, "+" or ":", or after ":-"
OffsetReadAsWritten(in) ==
    /\ in.kind = "file"
    /\ \/ in.layout = "date_b"
       \/ in.layout = "date_tz_b" /\ in.sep \in { <<"+">>, <<":">>, <<":", "-">> }

\* C8: for every first-fix hour and every offset a timestamp is derived, its
\* hour being (HH + k) modulo 24 and its day rolled forward or backward when
\* HH + k is above 23 or below 0.
C8_HourNormalised ==
    ( Decoded("datetime_from_igc") /\ OffsetReadAsWritten(input) ) =>
        LET total == input.hour + StatedOffset(input)
            day == ShiftDay(2000 + input.d[3], input.d[2], input.d[1], total \div 24)
        IN  /\ output.result.ok
            /\ output.result.date.hour = total % 24
            /\ <<output.result.date.year, output.result.date.month,
                 output.result.date.day>> = day

\* The width of a position record up to and including the GNSS altitude
\* (gnss_alt is b_record[30:35])
MinPositionRecordWidth == 35

\* C9: decoding a B-record line shorter than the fields up to and including
\* the GNSS altitude fails: no record is returned.
C9_ShortLineRejected ==
    ( /\ output.done
      /\ input.kind = "line"
      /\ output.fn \in {"parse_b_record", "parse_tracklog_line"}
      /\ Len(input.line) < MinPositionRecordWidth ) =>
        ~output.result.ok

\* Not a claim: parse_tracklog_line does reject every such line
TracklogLineRejectsShort ==
    ( Decoded("parse_tracklog_line") /\ Len(input.line) < MinPositionRecordWidth ) =>
        ~output.result.ok

====
